---- MODULE Spec2Model ----
(***************************************************************************)
(* A model of the invoice generator: the JSON store kept by                *)
(* InvoiceNumberManager (invoice counter and named templates), the         *)
(* onboarding script that writes the store, the command-line entry point   *)
(* main with its argument and interactive modes, and the element sequence  *)
(* built by InvoiceGenerator.generate_pdf.                                 *)
(*                                                                         *)
(* Python values are modelled as follows.  A dict is a function whose      *)
(* DOMAIN is the set of keys present, so a missing key is a key outside    *)
(* the DOMAIN and d[k] on it is a KeyError.  The templates dict, whose     *)
(* insertion order is observable, is a sequence of [name, data] entries    *)
(* with pairwise different names.  An argparse attribute that is None is   *)
(* a key outside DOMAIN args.  A formatted number is a sequence of         *)
(* one-character strings.                                                  *)
(***************************************************************************)
EXTENDS Integers, Sequences, FiniteSets, TLC

VARIABLES
    file,           \* invoice_data.json: [exists, doc]
    data,           \* data[p]: self.data of process p's InvoiceNumberManager
    pc,             \* pc[p]: where process p stands
    args,           \* args[p]: the parsed command line of the run
    template_data,  \* template_data[p]: main's template_data
    invoice_data,   \* invoice_data[p]: the invoice record built by the run
    ret,            \* ret[p]: what the last call or run returned or raised
    pdfs,           \* pdfs[p]: the documents doc.build has written in the run
    hist,           \* hist[p]: bookkeeping of the run (values at its start)
    used            \* how much of each bound the behaviour has used

vars ==
    <<file, data, pc, args, template_data, invoice_data, ret, pdfs, hist, used>>

(***************************************************************************)
(* Bounds of the model.                                                    *)
(***************************************************************************)
MaxAlloc == 3       \* get_next_invoice_number calls per behaviour
MaxSaves == 2       \* save_template calls per behaviour (store API)
MaxOnboard == 1     \* onboarding writes per behaviour
MaxRuns == 2        \* runs of main per behaviour

Procs == {1}

(***************************************************************************)
(* Python dict helpers.                                                    *)
(***************************************************************************)
EmptyDict == <<>>

Has(d, k) == k \in DOMAIN d

\* d.get(k, dflt)
Get(d, k, dflt) == IF k \in DOMAIN d THEN d[k] ELSE dflt

\* d[k] = v on a dict modelled as a function
Put(d, k, v) == [x \in (DOMAIN d) \cup {k} |-> IF x = k THEN v ELSE d[x]]

(***************************************************************************)
(* The templates dict: insertion-ordered, keys unique.                     *)
(***************************************************************************)
TplKeys(ts) == [i \in 1..Len(ts) |-> ts[i].name]

TplHas(ts, name) == \E i \in 1..Len(ts) : ts[i].name = name

TplIndex(ts, name) == CHOOSE i \in 1..Len(ts) : ts[i].name = name

TplGet(ts, name) == ts[TplIndex(ts, name)].data

\* A list-style store that appends an entry without looking for the name.
TplPutAppending(ts, name, rec) ==
    Append(ts, [name |-> name, data |-> rec])

\* templates[name] = template_data: an existing key keeps its position,
\* a new key goes last.
TplPut(ts, name, rec) ==
    IF TplHas(ts, name)
    THEN [i \in 1..Len(ts) |-> IF ts[i].name = name
                               THEN [name |-> name, data |-> rec]
                               ELSE ts[i]]
    ELSE Append(ts, [name |-> name, data |-> rec])

(***************************************************************************)
(* f"{n:04d}": sign-aware zero padding to a minimum width of 4.            *)
(***************************************************************************)
InvoiceNumberWidth == 4

DigitChars == <<"0", "1", "2", "3", "4", "5", "6", "7", "8", "9">>

RECURSIVE Digits(_)
Digits(n) ==
    IF n < 10 THEN <<DigitChars[n + 1]>>
    ELSE Digits(n \div 10) \o <<DigitChars[(n % 10) + 1]>>

RECURSIVE ZeroFill(_, _)
ZeroFill(s, w) == IF Len(s) >= w THEN s ELSE ZeroFill(<<"0">> \o s, w)

\* A formatter that keeps only the last four digits.
Format04dTruncating(n) ==
    ZeroFill(Digits(n % 10000), InvoiceNumberWidth)

Format04d(n) ==
    IF n < 0
    THEN <<"-">> \o ZeroFill(Digits(-n), InvoiceNumberWidth - 1)
    ELSE ZeroFill(Digits(n), InvoiceNumberWidth)

(***************************************************************************)
(* InvoiceNumberManager.                                                   *)
(***************************************************************************)
ZeroDoc == [last_invoice_number |-> 0, templates |-> <<>>]

NoFile == [exists |-> FALSE, doc |-> ZeroDoc]

\* A _load_data that looks for the file at a path where there is none.
LoadDataElsewhere(f) == ZeroDoc

\* _load_data: the parsed file if it exists, else the zero document.
LoadData(f) == IF f.exists THEN f.doc ELSE ZeroDoc

\* _save_data: the whole cached document replaces the file.
SaveData(d) == [exists |-> TRUE, doc |-> d]

\* self.data['last_invoice_number'] += 1
Incremented(d) ==
    [d EXCEPT !["last_invoice_number"] = d["last_invoice_number"] + 1]

\* save_template, up to the write: the templates key is created when missing.
WithTemplate(d, name, rec) ==
    LET d1 == IF Has(d, "templates") THEN d ELSE Put(d, "templates", <<>>)
    IN  [d1 EXCEPT !["templates"] = TplPut(d1["templates"], name, rec)]

\* load_template: None is [found |-> FALSE].
LoadTemplate(d, name) ==
    IF ~Has(d, "templates") THEN [found |-> FALSE, data |-> EmptyDict]
    ELSE IF TplHas(d["templates"], name)
         THEN [found |-> TRUE, data |-> TplGet(d["templates"], name)]
         ELSE [found |-> FALSE, data |-> EmptyDict]

\* list_templates
ListTemplates(d) ==
    IF ~Has(d, "templates") THEN <<>> ELSE TplKeys(d["templates"])

(***************************************************************************)
(* onboard.py: the onboarding script, which writes the store file itself.  *)
(***************************************************************************)
DefaultServiceDescription == "Contractor services - Software Engineer"

\* What the user types: the answer to the overwrite question, the first
\* invoice number, and the personal details.  The dolartag is typed with or
\* without its "$".
OnboardInputs ==
    [response : {"yes", "no"},
     start_num : {-1, 0, 9999},
     contractor_name : {"Ana"},
     contractor_cuil : {"20-1"},
     account_holder : {""},
     dollar : BOOLEAN,
     tag : {"ana"},
     contractor_tax_status : {""}]

OnboardTemplate(inp) ==
    [client_name |-> "Rexo, Inc.",
     client_address |-> "251 Little Falls Drive",
     client_ein |-> "33-2631448",
     contractor_name |-> inp.contractor_name,
     contractor_cuil |-> inp.contractor_cuil,
     contractor_tax_status |-> inp.contractor_tax_status,
     service_description |-> DefaultServiceDescription,
     account_holder |-> IF inp.account_holder = "" THEN inp.contractor_name
                        ELSE inp.account_holder,
     dolartag |-> "$" \o inp.tag,
     additional_payment_info |-> ""]

\* We store one less because the system increments before generating.
OnboardLastNumber(start_num) == start_num - 1

OnboardDoc(inp) ==
    [last_invoice_number |-> OnboardLastNumber(inp.start_num),
     templates |-> <<[name |-> "rexo", data |-> OnboardTemplate(inp)]>>]

\* The script runs to its write only if the user agrees to overwrite an
\* existing file and the number typed is accepted (a negative one is asked
\* for again).
OnboardAccepts(inp) ==
    /\ file.exists => inp.response = "yes"
    /\ ~(inp.start_num < 0)

Onboard(inp) ==
    /\ \A p \in Procs : pc[p] \in {"idle", "done"}
    /\ used.onboard < MaxOnboard
    /\ OnboardAccepts(inp)
    /\ file' = [exists |-> TRUE, doc |-> OnboardDoc(inp)]
    /\ used' = [used EXCEPT !.onboard = @ + 1]
    /\ UNCHANGED <<data, pc, args, template_data, invoice_data, ret, pdfs, hist>>

(***************************************************************************)
(* Results and bookkeeping.                                                *)
(***************************************************************************)
NoRet ==
    [op |-> "none", raised |-> "", str |-> <<>>, found |-> FALSE,
     tpl |-> EmptyDict, names |-> <<>>, mode |-> "", rv |-> ""]

NoHist ==
    [absent |-> TRUE, keyed |-> TRUE, start |-> 0, n |-> 0, last |-> <<>>,
     file0 |-> NoFile, data0 |-> ZeroDoc, argv |-> EmptyDict,
     typed |-> EmptyDict, writes |-> 0, renders |-> 0]

NoUse == [alloc |-> 0, save |-> 0, onboard |-> 0, runs |-> 0]

\* The bookkeeping of a manager constructed on file f.
HistAt(f) ==
    [absent |-> ~f.exists,
     keyed |-> Has(LoadData(f), "last_invoice_number"),
     start |-> Get(LoadData(f), "last_invoice_number", 0),
     n |-> 0, last |-> <<>>, file0 |-> f, data0 |-> LoadData(f),
     argv |-> EmptyDict, typed |-> EmptyDict, writes |-> 0, renders |-> 0]

(***************************************************************************)
(* The store API, called on a manager held by process p.                   *)
(***************************************************************************)
TemplateNames == {"rexo", "acme"}

SampleTemplate(who) ==
    [client_name |-> who, client_address |-> "", client_ein |-> "",
     contractor_name |-> "Ana", contractor_cuil |-> "20-1",
     contractor_tax_status |-> "",
     service_description |-> DefaultServiceDescription,
     account_holder |-> "Ana", dolartag |-> "$ana",
     additional_payment_info |-> ""]

SampleTemplates == {SampleTemplate("Initech"), SampleTemplate("Globex")}

\* InvoiceNumberManager(): __init__ reads the file once.
MgrOpen(p) ==
    /\ \A q \in Procs : pc[q] = "idle"
    /\ pc' = [pc EXCEPT ![p] = "live"]
    /\ data' = [data EXCEPT ![p] = LoadData(file)]
    /\ hist' = [hist EXCEPT ![p] = HistAt(file)]
    /\ ret' = [ret EXCEPT ![p] = NoRet]
    /\ UNCHANGED <<file, args, template_data, invoice_data, pdfs, used>>

MgrClose(p) ==
    /\ pc[p] = "live"
    /\ pc' = [pc EXCEPT ![p] = "idle"]
    /\ UNCHANGED <<file, data, args, template_data, invoice_data, ret, pdfs,
                   hist, used>>

\* get_next_invoice_number: a document without the key raises KeyError at
\* the += and nothing is written.
GetNextInvoiceNumber(p) ==
    IF Has(data[p], "last_invoice_number")
    THEN /\ data' = [data EXCEPT ![p] = Incremented(data[p])]
         /\ file' = SaveData(Incremented(data[p]))
         /\ ret' = [ret EXCEPT ![p] =
               [NoRet EXCEPT !.op = "get_next", !.mode = ret[p].mode,
                   !.str = Format04d(Incremented(data[p])["last_invoice_number"])]]
         /\ hist' = [hist EXCEPT ![p].n = @ + 1, ![p].writes = @ + 1,
               ![p].last = Format04d(Incremented(data[p])["last_invoice_number"])]
    ELSE /\ ret' = [ret EXCEPT ![p] =
               [NoRet EXCEPT !.op = "get_next", !.mode = ret[p].mode,
                   !.raised = "KeyError"]]
         /\ UNCHANGED <<data, file, hist>>

MgrGetNext(p) ==
    /\ pc[p] = "live"
    /\ used.alloc < MaxAlloc
    /\ GetNextInvoiceNumber(p)
    /\ used' = [used EXCEPT !.alloc = @ + 1]
    /\ UNCHANGED <<pc, args, template_data, invoice_data, pdfs>>

\* get_current_invoice_number
MgrGetCurrent(p) ==
    /\ pc[p] = "live"
    /\ ret' = [ret EXCEPT ![p] =
          IF Has(data[p], "last_invoice_number")
          THEN [NoRet EXCEPT !.op = "get_current",
                   !.str = Format04d(data[p]["last_invoice_number"])]
          ELSE [NoRet EXCEPT !.op = "get_current", !.raised = "KeyError"]]
    /\ UNCHANGED <<file, data, pc, args, template_data, invoice_data, pdfs,
                   hist, used>>

\* A save_template that writes the file after creating the templates key
\* and again after storing the entry.
SaveTemplateSavingTwice(p, name, rec) ==
    /\ data' = [data EXCEPT ![p] = WithTemplate(data[p], name, rec)]
    /\ file' = SaveData(WithTemplate(data[p], name, rec))
    /\ hist' = [hist EXCEPT ![p].writes = @ + 2]

\* save_template
SaveTemplate(p, name, rec) ==
    /\ data' = [data EXCEPT ![p] = WithTemplate(data[p], name, rec)]
    /\ file' = SaveData(WithTemplate(data[p], name, rec))
    /\ hist' = [hist EXCEPT ![p].writes = @ + 1]

MgrSaveTemplate(p, name, rec) ==
    /\ pc[p] = "live"
    /\ used.save < MaxSaves
    /\ SaveTemplate(p, name, rec)
    /\ ret' = [ret EXCEPT ![p] =
          [NoRet EXCEPT !.op = "save_template", !.names = <<name>>, !.tpl = rec]]
    /\ used' = [used EXCEPT !.save = @ + 1]
    /\ UNCHANGED <<pc, args, template_data, invoice_data, pdfs>>

\* load_template
MgrLoadTemplate(p, name) ==
    /\ pc[p] = "live"
    /\ ret' = [ret EXCEPT ![p] =
          [NoRet EXCEPT !.op = "load_template", !.names = <<name>>,
              !.found = LoadTemplate(data[p], name).found,
              !.tpl = LoadTemplate(data[p], name).data]]
    /\ UNCHANGED <<file, data, pc, args, template_data, invoice_data, pdfs,
                   hist, used>>

\* list_templates
MgrListTemplates(p) ==
    /\ pc[p] = "live"
    /\ ret' = [ret EXCEPT ![p] =
          [NoRet EXCEPT !.op = "list_templates",
              !.names = ListTemplates(data[p])]]
    /\ UNCHANGED <<file, data, pc, args, template_data, invoice_data, pdfs,
                   hist, used>>

(***************************************************************************)
(* StoreSpec: the store under onboarding writes and API calls.  The file   *)
(* starts absent, or as a hand-written document that parses but lacks      *)
(* keys.                                                                   *)
(***************************************************************************)
PartialDocs ==
    {[templates |-> <<>>],
     [last_invoice_number |-> 7],
     EmptyDict}

StoreSeeds == {NoFile} \cup {[exists |-> TRUE, doc |-> d] : d \in PartialDocs}

InitRest ==
    /\ data = [p \in Procs |-> ZeroDoc]
    /\ pc = [p \in Procs |-> "idle"]
    /\ args = [p \in Procs |-> EmptyDict]
    /\ template_data = [p \in Procs |-> EmptyDict]
    /\ invoice_data = [p \in Procs |-> EmptyDict]
    /\ ret = [p \in Procs |-> NoRet]
    /\ pdfs = [p \in Procs |-> <<>>]
    /\ hist = [p \in Procs |-> NoHist]
    /\ used = NoUse

StoreInit ==
    /\ file \in StoreSeeds
    /\ InitRest

StoreNext ==
    \/ \E inp \in OnboardInputs : Onboard(inp)
    \/ \E p \in Procs : MgrOpen(p)
    \/ \E p \in Procs : MgrClose(p)
    \/ \E p \in Procs : MgrGetNext(p)
    \/ \E p \in Procs : MgrGetCurrent(p)
    \/ \E p \in Procs, name \in TemplateNames, rec \in SampleTemplates :
          MgrSaveTemplate(p, name, rec)
    \/ \E p \in Procs, name \in TemplateNames : MgrLoadTemplate(p, name)
    \/ \E p \in Procs : MgrListTemplates(p)

StoreSpec == StoreInit /\ [][StoreNext]_vars

(***************************************************************************)
(* InvoiceGenerator.generate_pdf.  A record is a dict; generate_pdf        *)
(* indexes invoice_number, issue_date, amount, account_holder and dolartag *)
(* directly, in this order, and reads every other field with .get.  The    *)
(* flowables are [kind, text] records; doc.build is the last statement.    *)
(***************************************************************************)
RECURSIVE Join(_)
Join(chars) == IF Len(chars) = 0 THEN "" ELSE chars[1] \o Join(Tail(chars))

\* The integer part of f"{x:,}": digits in groups of three, from the right.
RECURSIVE GroupThousands(_)
GroupThousands(ds) ==
    IF Len(ds) <= 3 THEN ds
    ELSE GroupThousands(SubSeq(ds, 1, Len(ds) - 3))
            \o <<",">> \o SubSeq(ds, Len(ds) - 2, Len(ds))

\* f"${amount:,.2f}" for a whole amount.
FormatAmount(n) ==
    "$" \o (IF n < 0 THEN "-" ELSE "")
        \o Join(GroupThousands(Digits(IF n < 0 THEN -n ELSE n))) \o ".00"

\* if self.invoice_data.get(k): the key is there and its value is not empty.
Filled(rec, k) == Has(rec, k) /\ rec[k] # ""

IndexedFields ==
    <<"invoice_number", "issue_date", "amount", "account_holder", "dolartag">>

\* The first directly indexed key the record lacks, "" when it has them all.
FirstMissing(rec) ==
    IF \A i \in 1..Len(IndexedFields) : Has(rec, IndexedFields[i]) THEN ""
    ELSE IndexedFields[CHOOSE i \in 1..Len(IndexedFields) :
            /\ ~Has(rec, IndexedFields[i])
            /\ \A j \in 1..(i - 1) : Has(rec, IndexedFields[j])]

Paragraph(text) == [kind |-> "Paragraph", text |-> <<text>>]

Spacer(height) == [kind |-> "Spacer", text |-> <<height>>]

Table(cells) == [kind |-> "Table", text |-> cells]

\* A line that is kept, blank, when its field is empty.
LineOrBlank(cond, text) == <<Paragraph(IF cond THEN text ELSE "")>>

Line(cond, text) == IF cond THEN <<Paragraph(text)>> ELSE <<>>

FromSection(rec) ==
    <<Paragraph("<b>From:</b>")>>
      \o Line(Filled(rec, "contractor_name"), Get(rec, "contractor_name", ""))
      \o Line(Filled(rec, "contractor_cuil"),
              "CUIL: " \o Get(rec, "contractor_cuil", ""))
      \o Line(Filled(rec, "contractor_tax_status"),
              "Tax Status: " \o Get(rec, "contractor_tax_status", ""))

ToSection(rec) ==
    <<Paragraph("<b>Bill To:</b>")>>
      \o Line(Filled(rec, "client_name"), Get(rec, "client_name", ""))
      \o Line(Filled(rec, "client_address"), Get(rec, "client_address", ""))
      \o Line(Filled(rec, "client_ein"), "EIN: " \o Get(rec, "client_ein", ""))

Description(rec) ==
    Get(rec, "service_description", "Software engineering services")
      \o (IF Filled(rec, "service_period")
          THEN "\n" \o rec["service_period"] ELSE "")

RemittanceText(rec) ==
    "<b>Dolarapp Account Information:</b><br/>Account Holder: "
      \o rec["account_holder"] \o "<br/>Dolartag: " \o rec["dolartag"]
      \o (IF Filled(rec, "additional_payment_info")
          THEN "<br/>" \o rec["additional_payment_info"] ELSE "")

\* The elements list, for a record that has every indexed key.
Elements(rec) ==
    <<Paragraph("INVOICE"), Spacer("0.2in"),
      Table(<<"Invoice Number:", Join(rec["invoice_number"]),
              "Issue Date:", rec["issue_date"], "Currency:", "USD">>),
      Spacer("0.3in")>>
      \o FromSection(rec) \o <<Spacer("0.15in")>>
      \o ToSection(rec) \o <<Spacer("0.2in")>>
      \o <<Paragraph("<b>Services</b>"), Spacer("0.1in"),
           Table(<<"Description", "Amount (USD)",
                   Description(rec), FormatAmount(rec["amount"])>>),
           Spacer("0.15in"),
           Table(<<"Total:", FormatAmount(rec["amount"])>>),
           Spacer("0.3in"),
           Paragraph("<b>Remittance Instructions</b>"),
           Paragraph(RemittanceText(rec)), Spacer("0.3in"),
           Paragraph("<b>Note:</b> Services performed outside the U.S.; no U.S. withholding applies.")>>

\* A generate_pdf that reads the payment fields with .get, like the
\* optional ones, and so builds a document without them.
GeneratePdfLenient(rec, filename) ==
    IF FirstMissing(rec) \in {"invoice_number", "issue_date", "amount"}
    THEN [raised |-> "KeyError", missing |-> FirstMissing(rec),
          built |-> FALSE, filename |-> filename, elements |-> <<>>]
    ELSE [raised |-> "", missing |-> "",
          built |-> TRUE, filename |-> filename, elements |-> <<>>]

\* generate_pdf(filename): a KeyError naming the first missing indexed key,
\* raised before doc.build, or the built document.
GeneratePdf(rec, filename) ==
    IF FirstMissing(rec) # ""
    THEN [raised |-> "KeyError", missing |-> FirstMissing(rec),
          built |-> FALSE, filename |-> filename, elements |-> <<>>]
    ELSE [raised |-> "", missing |-> "",
          built |-> TRUE, filename |-> filename, elements |-> Elements(rec)]

(***************************************************************************)
(* main: the command line.  A command line is a dict of the options given; *)
(* parse_args adds the defaults of --service-description and               *)
(* --list-templates and leaves every other option not given as None (a     *)
(* missing key here).  File names are sequences of parts, so that          *)
(* endswith('.pdf') is a test on the last part.                            *)
(***************************************************************************)
ParseArgs(cl) ==
    cl @@ [service_description |-> DefaultServiceDescription,
           list_templates |-> FALSE]

\* Truth of a string option: given and not empty.
Given(a, k) == Has(a, k) /\ a[k] # ""

\* Truth of args.amount: given and not 0.
AmountGiven(a) == Has(a, "amount") /\ a["amount"] # 0

Today == "2025-01-31"

DefaultOutput == <<"invoice_20250131_120000", ".pdf">>

WithPdfSuffix(name) ==
    IF Len(name) > 0 /\ name[Len(name)] = ".pdf" THEN name
    ELSE Append(name, ".pdf")

OutputFilename(a) ==
    WithPdfSuffix(IF Has(a, "output") /\ Len(a["output"]) > 0
                  THEN a["output"] ELSE DefaultOutput)

\* args.X or template_data.get('X', '')
OrTemplate(a, td, k) == IF Given(a, k) THEN a[k] ELSE Get(td, k, "")

\* The service description of the record: the option unless it equals the
\* default text, else the template's, else the option.
MergedServiceDescription(a, td) ==
    IF a["service_description"] # DefaultServiceDescription
    THEN a["service_description"]
    ELSE Get(td, "service_description", a["service_description"])

\* invoice_data of argument mode
ArgumentInvoiceData(a, td, number) ==
    [invoice_number |-> number,
     issue_date |-> IF Given(a, "issue_date") THEN a["issue_date"] ELSE Today,
     client_name |-> OrTemplate(a, td, "client_name"),
     client_address |-> OrTemplate(a, td, "client_address"),
     client_ein |-> OrTemplate(a, td, "client_ein"),
     contractor_name |-> OrTemplate(a, td, "contractor_name"),
     contractor_cuil |-> OrTemplate(a, td, "contractor_cuil"),
     contractor_tax_status |-> OrTemplate(a, td, "contractor_tax_status"),
     service_description |-> MergedServiceDescription(a, td),
     service_period |-> IF Given(a, "service_period")
                        THEN a["service_period"] ELSE "",
     amount |-> a["amount"],
     account_holder |-> OrTemplate(a, td, "account_holder"),
     dolartag |-> OrTemplate(a, td, "dolartag"),
     additional_payment_info |-> OrTemplate(a, td, "additional_payment_info")]

\* A projection that copies the whole invoice record into the template.
TemplateToSaveWholeRecord(rec) == rec

\* template_to_save
TemplateToSave(rec) ==
    [client_name |-> rec["client_name"],
     client_address |-> rec["client_address"],
     client_ein |-> rec["client_ein"],
     contractor_name |-> rec["contractor_name"],
     contractor_cuil |-> rec["contractor_cuil"],
     contractor_tax_status |-> rec["contractor_tax_status"],
     service_description |-> rec["service_description"],
     account_holder |-> rec["account_holder"],
     dolartag |-> rec["dolartag"],
     additional_payment_info |-> rec["additional_payment_info"]]

\* required_from_template
RequiredFromTemplate(td) == Filled(td, "account_holder") /\ Filled(td, "dolartag")

\* The test that opens argument mode.
ArgumentMode(a, td) ==
    \/ AmountGiven(a) /\ Given(a, "account_holder") /\ Given(a, "dolartag")
    \/ AmountGiven(a) /\ RequiredFromTemplate(td)

\* any([args.amount, args.account_holder, args.dolartag])
AnyRequiredGiven(a) ==
    AmountGiven(a) \/ Given(a, "account_holder") \/ Given(a, "dolartag")

\* What a run leaves in ret: the course it took (mode) and, once main has
\* returned, what it returned (rv); an exception that escapes is in raised.
Returned(mode, rv) == [NoRet EXCEPT !.op = "main", !.mode = mode, !.rv = rv]

Escaped(mode, exc) == [NoRet EXCEPT !.op = "main", !.mode = mode, !.raised = exc]

Running(mode) == [NoRet EXCEPT !.op = "main", !.mode = mode]

\* The exit status of the finished process: the script calls main() and
\* drops what it returns, so the status is 0 whenever main returns and 1
\* when an exception escapes.
ExitStatus(r) == IF r.raised # "" THEN 1 ELSE 0

(***************************************************************************)
(* Spec: runs of the tool, one after the other, on a store that starts     *)
(* absent and is written only by the onboarding script and by the runs.    *)
(***************************************************************************)
\* The command lines tried: every combination of the options that decide
\* the course of a run, --list-templates with other options, a complete
\* command line with one more option given as a value or as the empty
\* string, and a few that save a template made from another.
CourseCommandLines ==
    {am @@ ah @@ dt @@ ut @@ st :
        am \in {EmptyDict, [amount |-> 0], [amount |-> 5000]},
        ah \in {EmptyDict, [account_holder |-> "Ana"]},
        dt \in {EmptyDict, [dolartag |-> "$ana"]},
        ut \in {EmptyDict, [use_template |-> "rexo"], [use_template |-> "acme"]},
        st \in {EmptyDict, [save_template |-> "acme"]}}

ListCommandLines ==
    {[list_templates |-> TRUE] @@ x :
        x \in {EmptyDict, [use_template |-> "acme"],
               [amount |-> 5000, account_holder |-> "Ana", dolartag |-> "$ana"]}}

StringOptions ==
    {"account_holder", "dolartag", "client_name", "client_address",
     "client_ein", "contractor_name", "contractor_cuil",
     "contractor_tax_status", "service_description", "service_period",
     "issue_date", "additional_payment_info", "save_template",
     "use_template"}

OneMoreOption ==
    {[k \in {o} |-> v] : o \in StringOptions, v \in {"", "Initech"}}
      \cup {[service_description |-> DefaultServiceDescription],
            [output |-> <<"january">>], [output |-> <<"january", ".pdf">>]}

FullCommandLine ==
    [amount |-> 5000, account_holder |-> "Ana", dolartag |-> "$ana"]

MergeCommandLines ==
    {m @@ u @@ FullCommandLine :
        m \in OneMoreOption, u \in {EmptyDict, [use_template |-> "rexo"]}}

SaveCommandLines ==
    {m @@ [use_template |-> "acme", save_template |-> "rexo"] @@ FullCommandLine :
        m \in {EmptyDict, [client_name |-> "Initech"],
               [service_description |-> "Consulting"],
               [service_period |-> "January 2025"]}}

CommandLines ==
    CourseCommandLines \cup ListCommandLines \cup MergeCommandLines
      \cup SaveCommandLines

\* float(amount_str.replace(',', '').replace('$', '')) on what was typed,
\* for whole amounts: the digits left must be there and be digits.
AmountDigits(typed) == SelectSeq(typed, LAMBDA c : c # "," /\ c # "$")

AmountParses(typed) ==
    /\ Len(AmountDigits(typed)) > 0
    /\ \A i \in 1..Len(AmountDigits(typed)) :
          \E d \in 1..10 : DigitChars[d] = AmountDigits(typed)[i]

RECURSIVE DigitsValue(_)
DigitsValue(ds) ==
    IF Len(ds) = 0 THEN 0
    ELSE 10 * DigitsValue(SubSeq(ds, 1, Len(ds) - 1))
           + ((CHOOSE d \in 1..10 : DigitChars[d] = ds[Len(ds)]) - 1)

\* What the user types at the prompts of interactive_mode.
PromptInputs ==
    [client_name : {"Initech"},
     client_address : {""},
     service_description : {""},
     amount_str : {<<"$", "5", ",", "0", "0", "0">>, <<"0">>, <<"n", "o">>},
     issue_date : {""},
     account_holder : {"", "Ana"},
     dolartag : {"", "$ana"},
     additional_payment_info : {""},
     output : {<<"january">>}]

\* invoice_data of interactive mode
InteractiveInvoiceData(inp, number) ==
    [invoice_number |-> number,
     issue_date |-> IF inp.issue_date = "" THEN Today ELSE inp.issue_date,
     client_name |-> inp.client_name,
     client_address |-> inp.client_address,
     service_description |-> IF inp.service_description = ""
                             THEN "Software engineering services"
                             ELSE inp.service_description,
     amount |-> DigitsValue(AmountDigits(inp.amount_str)),
     account_holder |-> inp.account_holder,
     dolartag |-> inp.dolartag,
     additional_payment_info |-> inp.additional_payment_info]

InteractiveOutput(inp) ==
    WithPdfSuffix(IF Len(inp.output) = 0 THEN DefaultOutput ELSE inp.output)

\* A main that takes the invoice number before it looks at the options.
MainFromModeEager(p, a, td) ==
    /\ file' = SaveData(Incremented(LoadData(file)))
    /\ IF ArgumentMode(a, td)
       THEN /\ pc' = [pc EXCEPT ![p] = "render"]
            /\ ret' = [ret EXCEPT ![p] = Running("argument")]
       ELSE IF AnyRequiredGiven(a)
       THEN /\ pc' = [pc EXCEPT ![p] = "done"]
            /\ ret' = [ret EXCEPT ![p] = Returned("args_error", "1")]
       ELSE /\ pc' = [pc EXCEPT ![p] = "prompt"]
            /\ ret' = [ret EXCEPT ![p] = Running("interactive")]

\* main from the mode test on (lines 410-471), up to the first store
\* operation: argument mode goes on to take a number, a partial set of the
\* required options ends the run with an error, and no required option at
\* all goes on to the prompts.
MainFromMode(p, a, td) ==
    /\ file' = file
    /\ IF ArgumentMode(a, td)
       THEN /\ pc' = [pc EXCEPT ![p] = "allocate"]
            /\ ret' = [ret EXCEPT ![p] = Running("argument")]
       ELSE IF AnyRequiredGiven(a)
       THEN /\ pc' = [pc EXCEPT ![p] = "done"]
            /\ ret' = [ret EXCEPT ![p] = Returned("args_error", "1")]
       ELSE /\ pc' = [pc EXCEPT ![p] = "prompt"]
            /\ ret' = [ret EXCEPT ![p] = Running("interactive")]

\* main from parse_args to the mode test: the manager is constructed,
\* --list-templates prints the names and returns 0, and a --use-template
\* name that load_template does not find returns 1.
Start(p, cl) ==
    /\ \A q \in Procs : pc[q] \in {"idle", "done"}
    /\ used.runs < MaxRuns
    /\ used' = [used EXCEPT !.runs = @ + 1]
    /\ args' = [args EXCEPT ![p] = ParseArgs(cl)]
    /\ data' = [data EXCEPT ![p] = LoadData(file)]
    /\ hist' = [hist EXCEPT ![p] = [HistAt(file) EXCEPT !.argv = cl]]
    /\ invoice_data' = [invoice_data EXCEPT ![p] = EmptyDict]
    /\ pdfs' = [pdfs EXCEPT ![p] = <<>>]
    /\ LET a == ParseArgs(cl)
           d == LoadData(file)
           found == LoadTemplate(d, a["use_template"])
       IN  IF a["list_templates"]
           THEN /\ pc' = [pc EXCEPT ![p] = "done"]
                /\ ret' = [ret EXCEPT ![p] =
                      [Returned("list", "0") EXCEPT !.names = ListTemplates(d)]]
                /\ template_data' = [template_data EXCEPT ![p] = EmptyDict]
                /\ file' = file
           ELSE IF Given(a, "use_template") /\ ~found.found
           THEN /\ pc' = [pc EXCEPT ![p] = "done"]
                /\ ret' = [ret EXCEPT ![p] = Returned("template_not_found", "1")]
                /\ template_data' = [template_data EXCEPT ![p] = EmptyDict]
                /\ file' = file
           ELSE IF Given(a, "use_template")
           THEN /\ template_data' = [template_data EXCEPT ![p] = found.data]
                /\ MainFromMode(p, a, found.data)
           ELSE /\ template_data' = [template_data EXCEPT ![p] = EmptyDict]
                /\ MainFromMode(p, a, EmptyDict)

\* Argument mode, lines 415-440: the number is taken, then the record is
\* merged from the options and the template.
Allocate(p) ==
    /\ pc[p] = "allocate"
    /\ used.alloc < MaxAlloc
    /\ used' = [used EXCEPT !.alloc = @ + 1]
    /\ GetNextInvoiceNumber(p)
    /\ IF ret'[p].raised = ""
       THEN /\ pc' = [pc EXCEPT ![p] = "render"]
            /\ invoice_data' = [invoice_data EXCEPT ![p] =
                  ArgumentInvoiceData(args[p], template_data[p], ret'[p].str)]
       ELSE /\ pc' = [pc EXCEPT ![p] = "done"]
            /\ invoice_data' = invoice_data
    /\ UNCHANGED <<args, template_data, pdfs>>

\* interactive_mode, lines 275-317: the prompts (an amount that does not
\* parse is asked for again), then a manager of its own.
Prompt(p, inp) ==
    /\ pc[p] = "prompt"
    /\ AmountParses(inp.amount_str)
    /\ pc' = [pc EXCEPT ![p] = "number"]
    /\ data' = [data EXCEPT ![p] = LoadData(file)]
    /\ hist' = [hist EXCEPT ![p].typed = inp]
    /\ UNCHANGED <<file, args, template_data, invoice_data, ret, pdfs, used>>

\* interactive_mode, lines 318-331.
AllocateInteractive(p) ==
    /\ pc[p] = "number"
    /\ used.alloc < MaxAlloc
    /\ used' = [used EXCEPT !.alloc = @ + 1]
    /\ GetNextInvoiceNumber(p)
    /\ IF ret'[p].raised = ""
       THEN /\ pc' = [pc EXCEPT ![p] = "render"]
            /\ invoice_data' = [invoice_data EXCEPT ![p] =
                  InteractiveInvoiceData(hist[p].typed, ret'[p].str)]
       ELSE /\ pc' = [pc EXCEPT ![p] = "done"]
            /\ invoice_data' = invoice_data
    /\ UNCHANGED <<args, template_data, pdfs>>

\* The file name the run renders to.
RunOutput(p) ==
    IF ret[p].mode = "interactive" THEN InteractiveOutput(hist[p].typed)
    ELSE OutputFilename(args[p])

\* generator.generate_pdf(output_filename) and the success message; the run
\* then ends, unless argument mode has a template to save.
Render(p) ==
    /\ pc[p] = "render"
    /\ LET out == GeneratePdf(invoice_data[p], RunOutput(p))
       IN  IF out.raised # ""
           THEN /\ pc' = [pc EXCEPT ![p] = "done"]
                /\ ret' = [ret EXCEPT ![p] =
                      [Escaped(ret[p].mode, out.raised) EXCEPT
                          !.names = <<out.missing>>]]
                /\ UNCHANGED <<pdfs, hist>>
           ELSE /\ pdfs' = [pdfs EXCEPT ![p] = Append(@, out)]
                /\ hist' = [hist EXCEPT ![p].renders = @ + 1]
                /\ IF ret[p].mode = "argument" /\ Given(args[p], "save_template")
                   THEN /\ pc' = [pc EXCEPT ![p] = "save"]
                        /\ ret' = ret
                   ELSE /\ pc' = [pc EXCEPT ![p] = "done"]
                        /\ ret' = [ret EXCEPT ![p] =
                              Returned(ret[p].mode, "None")]
    /\ UNCHANGED <<file, data, args, template_data, invoice_data, used>>

\* Lines 448-462: --save-template NAME stores the projection of the record.
SaveAsTemplate(p) ==
    /\ pc[p] = "save"
    /\ SaveTemplate(p, args[p]["save_template"], TemplateToSave(invoice_data[p]))
    /\ pc' = [pc EXCEPT ![p] = "done"]
    /\ ret' = [ret EXCEPT ![p] =
          [Returned(ret[p].mode, "None") EXCEPT
              !.names = <<args[p]["save_template"]>>]]
    /\ UNCHANGED <<args, template_data, invoice_data, pdfs, used>>

Init ==
    /\ file = NoFile
    /\ InitRest

\* The onboarding the runs are tried after: first invoice number 9999.
SetupInputs == {inp \in OnboardInputs : inp.start_num = 9999}

Next ==
    \/ \E inp \in SetupInputs : Onboard(inp)
    \/ \E p \in Procs, cl \in CommandLines : Start(p, cl)
    \/ \E p \in Procs : Allocate(p)
    \/ \E p \in Procs, inp \in PromptInputs : Prompt(p, inp)
    \/ \E p \in Procs : AllocateInteractive(p)
    \/ \E p \in Procs : Render(p)
    \/ \E p \in Procs : SaveAsTemplate(p)

Spec == Init /\ [][Next]_vars

(***************************************************************************)
(* What "decimal, zero-padded to a minimum width of 4" means, stated       *)
(* without the formatting code: the characters are digits that read back   *)
(* as the number, there are at least 4 of them, and beyond 4 there is no   *)
(* leading zero.                                                           *)
(***************************************************************************)
IsDigit(c) == \E d \in 1..10 : DigitChars[d] = c

DigitValue(c) == (CHOOSE d \in 1..10 : DigitChars[d] = c) - 1

RECURSIVE DecimalValue(_)
DecimalValue(s) ==
    IF Len(s) = 0 THEN 0
    ELSE 10 * DecimalValue(SubSeq(s, 1, Len(s) - 1)) + DigitValue(s[Len(s)])

IsPaddedDecimalOf(s, v) ==
    /\ Len(s) >= 4
    /\ \A i \in 1..Len(s) : IsDigit(s[i])
    /\ DecimalValue(s) = v
    /\ Len(s) > 4 => s[1] # "0"

\* C1: on a manager constructed on a store whose counter is start >= 0 (an
\* absent file counting as 0), the n-th get_next_invoice_number call returns
\* start+n as a decimal zero-padded to at least 4 digits, the file then
\* holds last_invoice_number = start+n, and get_current_invoice_number
\* afterwards returns the string of the latest allocation; on an absent
\* file the first call returns "0001" and leaves 1 in the file.
C1_SequentialNumbers ==
    \A p \in Procs :
        (pc[p] = "live" /\ hist[p].keyed /\ hist[p].start >= 0) =>
            /\ ret[p].op = "get_next" =>
                  /\ ret[p].raised = ""
                  /\ hist[p].n >= 1
                  /\ ret[p].str = hist[p].last
                  /\ IsPaddedDecimalOf(ret[p].str, hist[p].start + hist[p].n)
            /\ hist[p].n >= 1 =>
                  /\ file.exists
                  /\ file.doc["last_invoice_number"] = hist[p].start + hist[p].n
            /\ (ret[p].op = "get_current" /\ hist[p].n >= 1) =>
                  /\ ret[p].raised = ""
                  /\ ret[p].str = hist[p].last
            /\ (ret[p].op = "get_next" /\ hist[p].absent /\ hist[p].n = 1) =>
                  /\ ret[p].str = <<"0", "0", "0", "1">>
                  /\ file.doc["last_invoice_number"] = 1

\* C1 witness: two allocations in a row crossed from 9999 to 10000, and
\* get_current_invoice_number was then asked.
C1_Witness ==
    \E p \in Procs :
        /\ pc[p] = "live"
        /\ hist[p].start = 9998
        /\ hist[p].n = 2
        /\ ret[p].op = "get_current"
        /\ ret[p].str = <<"1", "0", "0", "0", "0">>

\* C5: a store file that parses but lacks keys never makes an operation
\* fail; without last_invoice_number the manager answers as if it were 0
\* ("0000" for the current number, "0001" for the first allocation), and
\* without templates as if there were none.
C5_PartialDocTolerated ==
    \A p \in Procs :
        pc[p] = "live" =>
            /\ ret[p].raised = ""
            /\ (~hist[p].keyed /\ ret[p].op = "get_current" /\ hist[p].n = 0) =>
                  ret[p].str = <<"0", "0", "0", "0">>
            /\ (~hist[p].keyed /\ ret[p].op = "get_next" /\ hist[p].n <= 1) =>
                  ret[p].str = <<"0", "0", "0", "1">>
            /\ (~Has(hist[p].data0, "templates") /\ ret[p].op = "list_templates"
                    /\ data[p] = hist[p].data0) =>
                  ret[p].names = <<>>
            /\ (~Has(hist[p].data0, "templates") /\ ret[p].op = "load_template"
                    /\ data[p] = hist[p].data0) =>
                  ~ret[p].found

\* C7: the stored last_invoice_number is never negative.
C7_CounterNonNegative ==
    (file.exists /\ Has(file.doc, "last_invoice_number")) =>
        file.doc["last_invoice_number"] >= 0

\* C7, second half: a manager's calls never lower the stored counter.
C7_CallsNeverDecrease ==
    [][(\E p \in Procs : pc[p] = "live")
          => /\ Has(LoadData(file), "last_invoice_number")
                   => Has(LoadData(file'), "last_invoice_number")
             /\ Has(LoadData(file), "last_invoice_number")
                   => LoadData(file')["last_invoice_number"]
                         >= LoadData(file)["last_invoice_number"]]_vars

\* C10: a save_template(name, record) step is an upsert with a frame.
\* Afterwards load_template(name) gives record, in memory and from the
\* file; every other name loads as before and last_invoice_number is as
\* before, in memory and in the file; list_templates is the old list if
\* name was in it and the old list with name appended otherwise, and holds
\* name exactly once.
SaveTemplateFrame(p, name, rec) ==
    /\ LoadTemplate(data'[p], name) = [found |-> TRUE, data |-> rec]
    /\ LoadTemplate(LoadData(file'), name) = [found |-> TRUE, data |-> rec]
    /\ \A other \in (TemplateNames \cup {"beta"}) \ {name} :
          /\ LoadTemplate(data'[p], other) = LoadTemplate(data[p], other)
          /\ LoadTemplate(LoadData(file'), other)
                = LoadTemplate(LoadData(file), other)
    /\ Has(data'[p], "last_invoice_number") = Has(data[p], "last_invoice_number")
    /\ Has(data[p], "last_invoice_number") =>
          data'[p]["last_invoice_number"] = data[p]["last_invoice_number"]
    /\ Has(LoadData(file'), "last_invoice_number")
          = Has(LoadData(file), "last_invoice_number")
    /\ Has(LoadData(file), "last_invoice_number") =>
          LoadData(file')["last_invoice_number"]
             = LoadData(file)["last_invoice_number"]
    /\ ListTemplates(data'[p]) =
          IF \E i \in 1..Len(ListTemplates(data[p])) :
                ListTemplates(data[p])[i] = name
          THEN ListTemplates(data[p])
          ELSE Append(ListTemplates(data[p]), name)
    /\ ListTemplates(LoadData(file')) = ListTemplates(data'[p])
    /\ Cardinality({i \in 1..Len(ListTemplates(data'[p])) :
                       ListTemplates(data'[p])[i] = name}) = 1

C10_SaveTemplateUpsert ==
    [][\A p \in Procs :
          (pc[p] = "live" /\ used'.save = used.save + 1)
             => SaveTemplateFrame(p, ret'[p].names[1], ret'[p].tpl)]_vars

\* C10 witness: a template saved earlier under a name listed first was
\* replaced by a different record, with another template stored after it.
C10_Witness ==
    \E p \in Procs :
        /\ pc[p] = "live"
        /\ ret[p].op = "save_template"
        /\ used.save >= 2
        /\ Len(ListTemplates(data[p])) = 2
        /\ ret[p].names[1] = ListTemplates(data[p])[1]
        /\ ret[p].tpl = SampleTemplate("Globex")
        /\ file.exists
        /\ file.doc = data[p]

(***************************************************************************)
(* Claims about runs of main.                                              *)
(***************************************************************************)
Counter(f) == LoadData(f)["last_invoice_number"]

\* The step in which process p's run ends.
RunEnds(p) ==
    /\ pc'[p] = "done"
    /\ pc[p] \notin {"idle", "done"} \/ used'.runs # used.runs

\* How a run can end on a validation failure: the template asked for is
\* not there, the required options are given in part, or generate_pdf
\* misses a field it indexes.
ValidationFailure(r) ==
    \/ r.mode \in {"template_not_found", "args_error"}
    \/ r.op = "main" /\ r.raised = "KeyError"

\* C2: a run that ends on a validation failure leaves the stored
\* last_invoice_number at the value it had when the run started.
C2_FailureKeepsCounter ==
    [][\A p \in Procs :
          (RunEnds(p) /\ ValidationFailure(ret'[p]))
             => Counter(file') = Counter(hist'[p].file0)]_vars

\* C2 witness: on a store that already counts 9999, a run given only part
\* of the required options ended with the error.
C2_Witness ==
    \E p \in Procs :
        /\ pc[p] = "done"
        /\ ret[p].mode = "args_error"
        /\ Has(hist[p].argv, "amount")
        /\ ~Has(hist[p].argv, "dolartag")
        /\ Counter(hist[p].file0) = 9999
        /\ file = hist[p].file0

\* The fields a template can hold, with the default each has in a record.
MergeableFields ==
    {"client_name", "client_address", "client_ein", "contractor_name",
     "contractor_cuil", "contractor_tax_status", "service_description",
     "account_holder", "dolartag", "additional_payment_info"}

HardcodedDefault(f) ==
    IF f = "service_description" THEN "Contractor services - Software Engineer"
    ELSE ""

\* C3: in the record of argument mode every mergeable field is the option
\* given on the command line if that is not empty, else the template's
\* value if the template has the field, else the hardcoded default.
C3_MergePrecedence ==
    \A p \in Procs :
        (ret[p].mode = "argument" /\ Has(invoice_data[p], "invoice_number")) =>
            \A f \in MergeableFields :
                invoice_data[p][f] =
                    IF Given(hist[p].argv, f) THEN hist[p].argv[f]
                    ELSE IF Has(template_data[p], f) THEN template_data[p][f]
                    ELSE HardcodedDefault(f)

\* C3 without the service description: the nine fields merged with "or".
C3_MergePrecedenceOtherFields ==
    \A p \in Procs :
        (ret[p].mode = "argument" /\ Has(invoice_data[p], "invoice_number")) =>
            \A f \in MergeableFields \ {"service_description"} :
                invoice_data[p][f] =
                    IF Given(hist[p].argv, f) THEN hist[p].argv[f]
                    ELSE IF Has(template_data[p], f) THEN template_data[p][f]
                    ELSE HardcodedDefault(f)

\* C4: a run that asks for a template the store does not have reports the
\* error, exits with a non-zero status and leaves the store as it was; it
\* takes no invoice number and renders nothing.
C4_MissingTemplateAborts ==
    [][\A p \in Procs :
          (/\ RunEnds(p)
           /\ Has(hist'[p].argv, "use_template")
           /\ ~LoadTemplate(hist'[p].data0, hist'[p].argv["use_template"]).found)
             => /\ ret'[p].mode = "template_not_found"
                /\ ExitStatus(ret'[p]) # 0
                /\ file' = hist'[p].file0
                /\ hist'[p].n = 0
                /\ pdfs'[p] = <<>>]_vars

\* C4 as far as the store goes: the same run leaves the store as it was,
\* takes no number and renders nothing.
C4_MissingTemplateFrame ==
    [][\A p \in Procs :
          (/\ RunEnds(p)
           /\ Has(hist'[p].argv, "use_template")
           /\ ~LoadTemplate(hist'[p].data0, hist'[p].argv["use_template"]).found
           /\ ret'[p].mode = "template_not_found")
             => /\ ret'[p].rv = "1"
                /\ file' = hist'[p].file0
                /\ hist'[p].n = 0
                /\ pdfs'[p] = <<>>]_vars

\* A required value can be had: the amount from the command line, the
\* account holder and the dolartag from the command line or the template.
Resolvable(p) ==
    /\ Has(hist[p].argv, "amount")
    /\ Given(hist[p].argv, "account_holder")
          \/ Filled(template_data[p], "account_holder")
    /\ Given(hist[p].argv, "dolartag") \/ Filled(template_data[p], "dolartag")

ReachedModeTest(p) == ret[p].mode \in {"argument", "args_error", "interactive"}

\* C6: argument mode is entered exactly when amount, account holder and
\* dolartag are all resolvable, from the command line or the template.
C6_ArgumentModeIffResolvable ==
    \A p \in Procs :
        ReachedModeTest(p) => (ret[p].mode = "argument" <=> Resolvable(p))

\* C6, last part: every run that does not enter argument mode goes on to
\* the interactive prompts.
C6_OtherwiseInteractive ==
    \A p \in Procs :
        (ReachedModeTest(p) /\ ret[p].mode # "argument")
            => ret[p].mode = "interactive"

\* C8: the template a --save-template step writes holds exactly the ten
\* template fields, each with the value the invoice record has for it, and
\* none of invoice_number, issue_date, amount and service_period.
C8_SavedTemplateProjection ==
    [][\A p \in Procs :
          (pc[p] = "save" /\ pc'[p] = "done") =>
             LET t == LoadTemplate(LoadData(file'), args[p]["save_template"])
             IN  /\ t.found
                 /\ DOMAIN t.data = MergeableFields
                 /\ \A f \in MergeableFields : t.data[f] = invoice_data[p][f]
                 /\ DOMAIN t.data \cap {"invoice_number", "issue_date",
                                        "amount", "service_period"} = {}]_vars

\* C8 witness: a run whose record has a service period, an amount, a date
\* and a number has saved its template.
C8_Witness ==
    \E p \in Procs :
        /\ pc[p] = "done"
        /\ ret[p].names = <<"rexo">>
        /\ Given(args[p], "save_template")
        /\ invoice_data[p]["service_period"] = "January 2025"
        /\ invoice_data[p]["amount"] = 5000
        /\ LoadTemplate(LoadData(file), "rexo").found
        /\ LoadTemplate(LoadData(file), "rexo").data["client_name"] = "Rexo, Inc."

(***************************************************************************)
(* RenderSpec: generate_pdf called on a record of either mode from which   *)
(* any set of the indexed fields has been removed.                         *)
(***************************************************************************)
Without(rec, ks) == [k \in (DOMAIN rec) \ ks |-> rec[k]]

IndexedFieldSet == {IndexedFields[i] : i \in 1..Len(IndexedFields)}

ArgumentRecords ==
    {ArgumentInvoiceData(ParseArgs(cl), td, Format04d(12)) :
        cl \in {FullCommandLine,
               [client_address |-> "1 Main St"] @@ FullCommandLine},
        td \in {EmptyDict, SampleTemplate("Initech")}}

ValidPromptInputs == {inp \in PromptInputs : AmountParses(inp.amount_str)}

InteractiveRecords ==
    {InteractiveInvoiceData(inp, Format04d(12)) : inp \in ValidPromptInputs}

RenderInit ==
    /\ file = NoFile
    /\ data = [p \in Procs |-> ZeroDoc]
    /\ pc = [p \in Procs |-> "render"]
    /\ args = [p \in Procs |-> ParseArgs(FullCommandLine)]
    /\ template_data = [p \in Procs |-> EmptyDict]
    /\ pdfs = [p \in Procs |-> <<>>]
    /\ used = NoUse
    /\ \E inp \in ValidPromptInputs :
          hist = [p \in Procs |-> [NoHist EXCEPT !.typed = inp]]
    /\ \/ /\ ret = [p \in Procs |-> Running("argument")]
          /\ \E rec \in ArgumentRecords, ks \in SUBSET IndexedFieldSet :
                invoice_data = [p \in Procs |-> Without(rec, ks)]
       \/ /\ ret = [p \in Procs |-> Running("interactive")]
          /\ \E rec \in InteractiveRecords, ks \in SUBSET IndexedFieldSet :
                invoice_data = [p \in Procs |-> Without(rec, ks)]

RenderNext == \E p \in Procs : Render(p)

RenderSpec == RenderInit /\ [][RenderNext]_vars

PaymentFields == {"amount", "account_holder", "dolartag"}

\* C9: generate_pdf on a record that lacks amount, account_holder or
\* dolartag raises an error naming a field the record lacks (one of these
\* three when invoice_number and issue_date are there), and no document is
\* built.
C9_MissingFieldFailsBeforeBuild ==
    \A p \in Procs :
        (pc[p] = "done" /\ PaymentFields \ DOMAIN invoice_data[p] # {}) =>
            /\ ret[p].raised = "KeyError"
            /\ ret[p].names[1] \notin DOMAIN invoice_data[p]
            /\ {"invoice_number", "issue_date"} \subseteq DOMAIN invoice_data[p]
                  => ret[p].names[1] \in PaymentFields
            /\ pdfs[p] = <<>>

\* C9 witness: an interactive-mode record without its dolartag alone was
\* given to generate_pdf, which raised the error naming dolartag.
C9_Witness ==
    \E p \in Procs :
        /\ pc[p] = "done"
        /\ ret[p].mode = "interactive"
        /\ IndexedFieldSet \ DOMAIN invoice_data[p] = {"dolartag"}
        /\ ret[p].raised = "KeyError"
        /\ ret[p].names = <<"dolartag">>

(***************************************************************************)
(* LayoutSpec: generate_pdf called on records in which each of the six     *)
(* party fields is missing, empty or filled, with and without the          *)
(* dolartag the remittance block indexes.                                  *)
(***************************************************************************)
FromFields == <<"contractor_name", "contractor_cuil", "contractor_tax_status">>

ToFields == <<"client_name", "client_address", "client_ein">>

PartyFields == {"contractor_name", "contractor_cuil", "contractor_tax_status",
                "client_name", "client_address", "client_ein"}

PartyValue ==
    [contractor_name |-> "Ana", contractor_cuil |-> "20-1",
     contractor_tax_status |-> "Monotributo", client_name |-> "Initech",
     client_address |-> "1 Main St", client_ein |-> "33-1"]

\* The text generate_pdf puts before the value of a party field.
LineLabel ==
    [contractor_name |-> "", contractor_cuil |-> "CUIL: ",
     contractor_tax_status |-> "Tax Status: ", client_name |-> "",
     client_address |-> "", client_ein |-> "EIN: "]

PartyShapes == [PartyFields -> {"missing", "empty", "filled"}]

Shaped(rec, shape) ==
    [k \in (DOMAIN rec) \ {f \in PartyFields : shape[f] = "missing"} |->
        IF k \notin PartyFields THEN rec[k]
        ELSE IF shape[k] = "empty" THEN "" ELSE PartyValue[k]]

LayoutRecords ==
    {Shaped(ArgumentInvoiceData(ParseArgs(FullCommandLine), EmptyDict,
                                Format04d(12)), shape) :
        shape \in PartyShapes}

LayoutInit ==
    /\ file = NoFile
    /\ data = [p \in Procs |-> ZeroDoc]
    /\ pc = [p \in Procs |-> "render"]
    /\ args = [p \in Procs |-> ParseArgs(FullCommandLine)]
    /\ template_data = [p \in Procs |-> EmptyDict]
    /\ pdfs = [p \in Procs |-> <<>>]
    /\ used = NoUse
    /\ hist = [p \in Procs |-> NoHist]
    /\ ret = [p \in Procs |-> Running("argument")]
    /\ \E rec \in LayoutRecords, ks \in {{}, {"dolartag"}} :
          invoice_data = [p \in Procs |-> Without(rec, ks)]

LayoutNext == \E p \in Procs : Render(p)

LayoutSpec == LayoutInit /\ [][LayoutNext]_vars

\* The field is in the record and its value is not the empty string.
NonEmpty(rec, f) == f \in DOMAIN rec /\ rec[f] # ""

\* The lines of a block as the rule states them: one line per non-empty
\* field, in the order of the block's field list, nothing for the others.
ExpectedLines(rec, fs) ==
    LET present == SelectSeq(fs, LAMBDA f : NonEmpty(rec, f))
    IN  [i \in 1..Len(present) |->
            Paragraph(LineLabel[present[i]] \o rec[present[i]])]

Built(p) == pc[p] = "done" /\ Len(pdfs[p]) = 1

\* C11: in every document generate_pdf builds, the From block is its
\* heading followed by exactly one line per non-empty contractor field
\* (name, CUIL, tax status, in this order) and the To block its heading
\* followed by exactly one line per non-empty client field (name, address,
\* EIN, in this order); an empty or missing field adds no element, no
\* element of the two blocks has an empty text, and title, header, From, To,
\* services, total, remittance and note follow each other in this order,
\* each right after the elements before it.
C11_OmitEmptyLines ==
    \A p \in Procs :
        Built(p) =>
            LET rec == invoice_data[p]
                e == pdfs[p][1].elements
                from == ExpectedLines(rec, FromFields)
                to == ExpectedLines(rec, ToFields)
                nf == Len(from)
                nt == Len(to)
            IN  /\ Len(e) = 18 + nf + nt
                /\ e[1] = Paragraph("INVOICE")
                /\ e[3].kind = "Table" /\ e[3].text[1] = "Invoice Number:"
                /\ e[5] = Paragraph("<b>From:</b>")
                /\ \A i \in 1..nf : e[5 + i] = from[i]
                /\ e[6 + nf].kind = "Spacer"
                /\ e[7 + nf] = Paragraph("<b>Bill To:</b>")
                /\ \A i \in 1..nt : e[7 + nf + i] = to[i]
                /\ e[8 + nf + nt].kind = "Spacer"
                /\ \A i \in 5..(8 + nf + nt) : e[i].text # <<"">>
                /\ e[9 + nf + nt] = Paragraph("<b>Services</b>")
                /\ e[11 + nf + nt].kind = "Table"
                /\ e[11 + nf + nt].text[1] = "Description"
                /\ e[13 + nf + nt].kind = "Table"
                /\ e[13 + nf + nt].text[1] = "Total:"
                /\ e[15 + nf + nt] = Paragraph("<b>Remittance Instructions</b>")
                /\ e[16 + nf + nt].kind = "Paragraph"
                /\ e[18 + nf + nt] = Paragraph("<b>Note:</b> Services performed outside the U.S.; no U.S. withholding applies.")

\* C11 witness: a document was built from a record whose client address is
\* the empty string and whose tax status is missing; the To block is the
\* heading, the client name and the EIN line, with nothing between them.
C11_Witness ==
    \E p \in Procs :
        /\ Built(p)
        /\ "client_address" \in DOMAIN invoice_data[p]
        /\ invoice_data[p]["client_address"] = ""
        /\ "contractor_tax_status" \notin DOMAIN invoice_data[p]
        /\ NonEmpty(invoice_data[p], "contractor_name")
        /\ NonEmpty(invoice_data[p], "contractor_cuil")
        /\ NonEmpty(invoice_data[p], "client_name")
        /\ NonEmpty(invoice_data[p], "client_ein")
        /\ Len(pdfs[p][1].elements) = 22
        /\ pdfs[p][1].elements[9] = Paragraph("<b>Bill To:</b>")
        /\ pdfs[p][1].elements[10] = Paragraph("Initech")
        /\ pdfs[p][1].elements[11] = Paragraph("EIN: 33-1")
        /\ pdfs[p][1].elements[12].kind = "Spacer"

(***************************************************************************)
(* Writes and renders of one run of main.  hist[p].writes counts the       *)
(* _save_data calls of the run and hist[p].renders its doc.build calls.    *)
(***************************************************************************)
\* C12: every run of main writes the store file at most once and renders
\* at most one document, whatever its options.
C12_AtMostOneWriteOneRender ==
    \A p \in Procs : hist[p].writes <= 1 /\ hist[p].renders <= 1

\* C12 as amended: every run renders at most one document and writes the
\* store file at most twice; it writes twice only in argument mode with
\* --save-template given, once for the number before the render and once
\* for the template after it, and at most once in every other case.
C12_WritesAndRenders ==
    \A p \in Procs :
        /\ hist[p].renders <= 1
        /\ Len(pdfs[p]) = hist[p].renders
        /\ hist[p].writes <= 2
        /\ hist[p].renders = 1 => hist[p].writes >= 1
        /\ hist[p].writes = 2 =>
              /\ pc[p] = "done"
              /\ ret[p].mode = "argument"
              /\ Given(args[p], "save_template")
              /\ hist[p].renders = 1
        /\ (pc[p] = "done" /\ ret[p].mode = "argument" /\ ret[p].raised = ""
               /\ Given(args[p], "save_template")) => hist[p].writes = 2
        /\ (pc[p] = "done"
               /\ ret[p].mode \in {"list", "template_not_found", "args_error"})
              => hist[p].writes = 0

\* C12 witness: a run in argument mode with --use-template and
\* --save-template together has ended, having rendered one document and
\* written the file twice.
C12_Witness ==
    \E p \in Procs :
        /\ pc[p] = "done"
        /\ ret[p].mode = "argument"
        /\ Given(args[p], "use_template")
        /\ Given(args[p], "save_template")
        /\ hist[p].renders = 1
        /\ hist[p].writes = 2
        /\ LoadTemplate(LoadData(file), args[p]["save_template"]).found
        /\ LoadData(file)["last_invoice_number"] = hist[p].start + 1

(***************************************************************************)
(* OverlapSpec: two invocations, each constructing one manager on the same *)
(* file, with no order between them: a manager may be constructed while    *)
(* the other invocation's is live.  hist[p].others records the invocations *)
(* that were live when p's manager was constructed.                        *)
(***************************************************************************)
Invocations == {1, 2}

OverlapSeeds ==
    {NoFile,
     [exists |-> TRUE, doc |-> [last_invoice_number |-> 7, templates |-> <<>>]]}

OverlapInit ==
    /\ file \in OverlapSeeds
    /\ data = [p \in Invocations |-> ZeroDoc]
    /\ pc = [p \in Invocations |-> "idle"]
    /\ args = [p \in Invocations |-> EmptyDict]
    /\ template_data = [p \in Invocations |-> EmptyDict]
    /\ invoice_data = [p \in Invocations |-> EmptyDict]
    /\ ret = [p \in Invocations |-> NoRet]
    /\ pdfs = [p \in Invocations |-> <<>>]
    /\ hist = [p \in Invocations |-> [others |-> {}] @@ NoHist]
    /\ used = NoUse

\* InvoiceNumberManager(), whatever the other invocation is doing.
OverlapOpen(p) ==
    /\ pc[p] = "idle"
    /\ pc' = [pc EXCEPT ![p] = "live"]
    /\ data' = [data EXCEPT ![p] = LoadData(file)]
    /\ hist' = [hist EXCEPT ![p] =
          [others |-> {q \in Invocations : pc[q] = "live"}] @@ HistAt(file)]
    /\ ret' = [ret EXCEPT ![p] = NoRet]
    /\ UNCHANGED <<file, args, template_data, invoice_data, pdfs, used>>

\* The invocation finishes; its process does not come back.
OverlapClose(p) ==
    /\ pc[p] = "live"
    /\ pc' = [pc EXCEPT ![p] = "done"]
    /\ UNCHANGED <<file, data, args, template_data, invoice_data, ret, pdfs,
                   hist, used>>

OverlapNext ==
    \/ \E p \in Invocations : OverlapOpen(p)
    \/ \E p \in Invocations : OverlapClose(p)
    \/ \E p \in Invocations : MgrGetNext(p)
    \/ \E p \in Invocations, name \in TemplateNames, rec \in SampleTemplates :
          MgrSaveTemplate(p, name, rec)

OverlapSpec == OverlapInit /\ [][OverlapNext]_vars

\* p and q overlapped: one was constructed while the other was live.
Overlapped(p, q) == q \in hist[p].others \/ p \in hist[q].others

\* The numbers invocation p was handed: its manager counts on from the
\* counter it read at construction.
Handed(p) == {hist[p].start + i : i \in 1..hist[p].n}

SameNumberHanded(p, q) ==
    /\ hist[p].n > 0 /\ hist[q].n > 0
    /\ hist[p].last = hist[q].last

\* The last store call of p saved a template, q's save wrote the file
\* last, and the file does not hold p's template.
TemplateLost(p, q) ==
    /\ ret[p].op = "save_template"
    /\ hist[q].writes > 0
    /\ file = SaveData(data[q])
    /\ ~LoadTemplate(LoadData(file), ret[p].names[1]).found

\* C13: the file is always the whole cached document of the invocation
\* that saved last, and two invocations that did not overlap (one was
\* constructed after the other had finished) are never handed the same
\* invoice number and never lose a template one of them saved; every
\* number handed is read off the invocation's own cached counter.
C13_SequentialKeepsUpdates ==
    /\ (\E p \in Invocations : hist[p].writes > 0) =>
          \E p \in Invocations : hist[p].writes > 0 /\ file = SaveData(data[p])
    /\ \A p \in Invocations :
          hist[p].n > 0 =>
              IsPaddedDecimalOf(hist[p].last, hist[p].start + hist[p].n)
    /\ \A p, q \in Invocations :
          (p # q /\ ~Overlapped(p, q)) =>
              /\ Handed(p) \cap Handed(q) = {}
              /\ ~SameNumberHanded(p, q)
              /\ ~TemplateLost(p, q)

\* C13 witness: two overlapping invocations were handed the same invoice
\* number, and the template the first saved is absent from the file after
\* the second's save.
C13_Witness ==
    /\ Overlapped(1, 2)
    /\ SameNumberHanded(1, 2)
    /\ Handed(1) \cap Handed(2) # {}
    /\ TemplateLost(1, 2)

====
